---- MODULE Spec2Model ----
(***************************************************************************)
(* Model of tools/validate_program.py, the ABC-notation validator of the   *)
(* Skipper/Gilligan workflow: tokenizer, note/rest/chord parsers, program  *)
(* builder with its beat cursor, bar-length quantizer, structural and      *)
(* scale validation, and the serializer back to notation text; and of the *)
(* stage and workflow commands of tools/gilligan.py, which run it.         *)
(*                                                                         *)
(* Text is a sequence of one-character strings.  Python floats are         *)
(* modelled as exact rationals <<numerator, denominator>> in lowest terms  *)
(* with a positive denominator; None is the empty sequence <<>>.           *)
(***************************************************************************)
EXTENDS Integers, Sequences, FiniteSets, TLC

(***************************************************************************)
(* Rational arithmetic (the float operations of the source).               *)
(***************************************************************************)
RECURSIVE Gcd(_, _)
Gcd(a, b) == IF b = 0 THEN a ELSE Gcd(b, a % b)

AbsInt(n) == IF n < 0 THEN -n ELSE n

Rat(n, d) ==
    LET g == Gcd(AbsInt(n), AbsInt(d))
        s == IF d < 0 THEN -1 ELSE 1
    IN  <<(s * n) \div g, (s * d) \div g>>

RInt(n) == <<n, 1>>
RAdd(x, y) == Rat(x[1] * y[2] + y[1] * x[2], x[2] * y[2])
RSub(x, y) == Rat(x[1] * y[2] - y[1] * x[2], x[2] * y[2])
RMul(x, y) == Rat(x[1] * y[1], x[2] * y[2])
RDiv(x, y) == Rat(x[1] * y[2], x[2] * y[1])
RLt(x, y) == x[1] * y[2] < y[1] * x[2]
RLe(x, y) == x[1] * y[2] <= y[1] * x[2]
RAbs(x) == <<AbsInt(x[1]), x[2]>>
\* int(x): truncation toward zero
RTrunc(x) == IF x[1] >= 0 THEN x[1] \div x[2] ELSE -((-x[1]) \div x[2])
\* x // y for y > 0 (floor)
RFloorDiv(x, y) == (x[1] * y[2]) \div (x[2] * y[1])
\* x % y for y > 0
RMod(x, y) == RSub(x, RMul(RInt(RFloorDiv(x, y)), y))
RIsInt(x) == x[2] = 1

None == <<>>

(***************************************************************************)
(* Characters and strings.                                                 *)
(***************************************************************************)
Digits == {"0", "1", "2", "3", "4", "5", "6", "7", "8", "9"}
Whitespace == {" ", "\n"}
UpperLetters == {"A", "B", "C", "D", "E", "F", "G", "H", "I", "J", "K", "L", "M",
                 "N", "O", "P", "Q", "R", "S", "T", "U", "V", "W", "X", "Y", "Z"}
AccidentalChars == {"^", "_", "="}
OctaveChars == {"'", ","}
PitchLetters == {"A", "B", "C", "D", "E", "F", "G",
                 "a", "b", "c", "d", "e", "f", "g"}
RestLetters == {"z", "Z"}

DigitVal(c) ==
    CASE c = "0" -> 0 [] c = "1" -> 1 [] c = "2" -> 2 [] c = "3" -> 3
      [] c = "4" -> 4 [] c = "5" -> 5 [] c = "6" -> 6 [] c = "7" -> 7
      [] c = "8" -> 8 [] c = "9" -> 9

DigitChar(n) ==
    CASE n = 0 -> "0" [] n = 1 -> "1" [] n = 2 -> "2" [] n = 3 -> "3"
      [] n = 4 -> "4" [] n = 5 -> "5" [] n = 6 -> "6" [] n = 7 -> "7"
      [] n = 8 -> "8" [] n = 9 -> "9"

\* str(n) for an integer n >= 0
RECURSIVE IntToStr(_)
IntToStr(n) == IF n < 10 THEN <<DigitChar(n)>>
               ELSE Append(IntToStr(n \div 10), DigitChar(n % 10))

RECURSIVE StrToInt(_)
StrToInt(s) == IF s = <<>> THEN 0
               ELSE 10 * StrToInt(SubSeq(s, 1, Len(s) - 1)) + DigitVal(s[Len(s)])

AllDigits(s) == \A k \in 1..Len(s) : s[k] \in Digits

Drop(s, n) == SubSeq(s, n + 1, Len(s))
StartsWith(s, p) == Len(s) >= Len(p) /\ SubSeq(s, 1, Len(p)) = p
Has(s, c) == \E k \in 1..Len(s) : s[k] = c
IsSubstring(p, s) ==
    \E k \in 0..(Len(s) - Len(p)) : SubSeq(s, k + 1, k + Len(p)) = p

RECURSIVE Concat(_)
Concat(ss) == IF ss = <<>> THEN <<>> ELSE Head(ss) \o Concat(Tail(ss))

\* s.split(c)
RECURSIVE Split(_, _)
Split(s, c) ==
    IF ~Has(s, c) THEN <<s>>
    ELSE LET k == CHOOSE j \in 1..Len(s) :
                      s[j] = c /\ \A m \in 1..(j - 1) : s[m] # c
         IN  <<SubSeq(s, 1, k - 1)>> \o Split(Drop(s, k), c)

\* s.rstrip(c)
RECURSIVE RStrip(_, _)
RStrip(s, cs) == IF s # <<>> /\ s[Len(s)] \in cs
                 THEN RStrip(SubSeq(s, 1, Len(s) - 1), cs) ELSE s

\* s.lstrip(c)
RECURSIVE LStrip(_, _)
LStrip(s, cs) == IF s # <<>> /\ s[1] \in cs THEN LStrip(Tail(s), cs) ELSE s

Strip(s, cs) == LStrip(RStrip(s, cs), cs)

\* length of the longest prefix of s made of characters of cs
RECURSIVE PrefixRun(_, _)
PrefixRun(s, cs) == IF s # <<>> /\ s[1] \in cs THEN 1 + PrefixRun(Tail(s), cs) ELSE 0

\* length of the longest suffix of s made of characters of cs
SuffixRun(s, cs) == Len(s) - Len(RStrip(s, cs))

(***************************************************************************)
(* Results of the parsers: a value, or the exception the code raises.      *)
(***************************************************************************)
NoMsg == [tag |-> "", text |-> <<>>]
Ok(p, d) == [kind |-> "ok", pitch |-> p, dur |-> d, msg |-> NoMsg]
ValueError(tag, text) ==
    [kind |-> "ValueError", pitch |-> 0, dur |-> RInt(0),
     msg |-> [tag |-> tag, text |-> text]]
ZeroDivisionError ==
    [kind |-> "ZeroDivisionError", pitch |-> 0, dur |-> RInt(0),
     msg |-> [tag |-> "float division by zero", text |-> <<>>]]

\* float(s) for a string of the characters a token can hold
FloatOf(s) ==
    IF s # <<>> /\ AllDigits(s) THEN Ok(0, RInt(StrToInt(s)))
    ELSE ValueError("could not convert string to float", s)

\* float(a) / float(b), evaluated left to right
FloatDiv(a, b) ==
    LET fa == FloatOf(a)
        fb == FloatOf(b)
    IN  IF fa.kind # "ok" THEN fa
        ELSE IF fb.kind # "ok" THEN fb
        ELSE IF fb.dur[1] = 0 THEN ZeroDivisionError
        ELSE Ok(0, RDiv(fa.dur, fb.dur))

\* the '/' branch shared by rests, notes and chords:
\*   parts = s.split('/'); float(parts[0]) / float(parts[1]) or 1.0 / float(parts[1])
FractionDuration(s) ==
    LET parts == Split(s, "/")
    IN  IF parts[1] # <<>> THEN FloatDiv(parts[1], parts[2])
        ELSE FloatDiv(<<"1">>, parts[2])

ABC_BASE_NOTES(c) ==
    CASE c = "C" -> 48 [] c = "D" -> 50 [] c = "E" -> 52 [] c = "F" -> 53
      [] c = "G" -> 55 [] c = "A" -> 57 [] c = "B" -> 59
      [] c = "c" -> 60 [] c = "d" -> 62 [] c = "e" -> 64 [] c = "f" -> 65
      [] c = "g" -> 67 [] c = "a" -> 69 [] c = "b" -> 71

\* the rest branch of parse_abc_note
ParseRest(note) ==
    LET rest_part == Drop(note, 1)
    IN  IF rest_part = <<>> THEN Ok(-1, RInt(1))
        ELSE IF Has(rest_part, "/") THEN
            LET r == FractionDuration(rest_part)
            IN  IF r.kind = "ok" THEN Ok(-1, r.dur) ELSE r
        ELSE LET f == FloatOf(rest_part)
             IN  IF f.kind = "ok" THEN Ok(-1, f.dur) ELSE Ok(-1, RInt(1))

\* the accidental prefix: <<delta, characters consumed>>
AccidentalOf(note) ==
    IF StartsWith(note, <<"^", "^">>) THEN <<2, 2>>
    ELSE IF StartsWith(note, <<"^">>) THEN <<1, 1>>
    ELSE IF StartsWith(note, <<"_", "_">>) THEN <<-2, 2>>
    ELSE IF StartsWith(note, <<"_">>) THEN <<-1, 1>>
    ELSE IF StartsWith(note, <<"=">>) THEN <<0, 1>>
    ELSE <<0, 0>>

\* the duration suffix of a note
ParseNoteDuration(note, token) ==
    IF note = <<>> THEN Ok(0, RInt(1))
    ELSE IF Has(note, "/") THEN FractionDuration(note)
    ELSE LET f == FloatOf(note)
         IN  IF f.kind = "ok" THEN f ELSE ValueError("Invalid duration in", token)

parse_abc_note(token) ==
    IF token = <<>> THEN ValueError("Empty note token", <<>>)
    ELSE IF token[1] \in RestLetters THEN ParseRest(token)
    ELSE
        LET acc == AccidentalOf(token)
            n1 == Drop(token, acc[2])
        IN  IF n1 = <<>> THEN ValueError("Invalid ABC note", token)
            ELSE IF n1[1] \notin PitchLetters
                 THEN ValueError("Invalid note letter", token)
            ELSE
                LET n2 == Drop(n1, 1)
                    ups == PrefixRun(n2, {"'"})
                    n3 == Drop(n2, ups)
                    downs == PrefixRun(n3, {","})
                    n4 == Drop(n3, downs)
                    midi == ABC_BASE_NOTES(n1[1]) + acc[1] + 12 * ups - 12 * downs
                IN  IF midi < 0 \/ midi > 127
                    THEN ValueError("Note out of MIDI range (0-127)", token)
                    ELSE LET d == ParseNoteDuration(n4, token)
                         IN  IF d.kind = "ok" THEN Ok(midi, d.dur) ELSE d

(***************************************************************************)
(* Chord parser.                                                           *)
(***************************************************************************)
\* finditer of (\^{1,2}|_{1,2}|=)?([A-Ga-g])([',]*) over inner, from position p;
\* prevEnd is the last position the previous match consumed
RECURSIVE ChordGroups(_, _, _)
ChordGroups(inner, p, prevEnd) ==
    IF p > Len(inner) THEN <<>>
    ELSE IF inner[p] \notin PitchLetters THEN ChordGroups(inner, p + 1, prevEnd)
    ELSE
        LET has1 == p - 1 > prevEnd
            has2 == p - 2 > prevEnd
            accidental_str ==
                IF has1 /\ inner[p - 1] = "=" THEN <<"=">>
                ELSE IF has1 /\ inner[p - 1] \in {"^", "_"} THEN
                    IF has2 /\ inner[p - 2] = inner[p - 1]
                    THEN <<inner[p - 1], inner[p - 1]>>
                    ELSE <<inner[p - 1]>>
                ELSE <<>>
            n == PrefixRun(Drop(inner, p), OctaveChars)
            octave_mod == SubSeq(inner, p + 1, p + n)
        IN  <<accidental_str \o <<inner[p]>> \o octave_mod>>
                \o ChordGroups(inner, p + n + 1, p + n)

\* keeps the pitches of the groups parse_abc_note accepts (except ValueError: continue)
RECURSIVE ChordPitches(_)
ChordPitches(groups) ==
    IF groups = <<>> THEN <<>>
    ELSE LET r == parse_abc_note(Head(groups))
         IN  (IF r.kind = "ok" THEN <<r.pitch>> ELSE <<>>) \o ChordPitches(Tail(groups))

\* the pitches of parse_abc_chord's result (each paired with chord_duration = 1.0)
parse_abc_chord(chord_str) ==
    LET inner == Strip(chord_str, {"[", "]"})
    IN  IF inner = <<>> THEN <<>> ELSE ChordPitches(ChordGroups(inner, 1, 0))

\* re.search(r'(\d+(?:/\d+)?|\d*/\d+)$', token.rstrip(']')): the matched text, or None
ChordDurationMatch(token) ==
    LET s == RStrip(token, {"]"})
        a == SuffixRun(s, Digits)
        before == SubSeq(s, 1, Len(s) - a)
    IN  IF a = 0 THEN None
        ELSE IF before # <<>> /\ before[Len(before)] = "/" THEN
            LET b == SuffixRun(SubSeq(before, 1, Len(before) - 1), Digits)
            IN  SubSeq(s, Len(s) - a - b, Len(s))
        ELSE SubSeq(s, Len(s) - a + 1, Len(s))

\* the duration abc_to_program gives a chord token
ChordDuration(token) ==
    LET dur_str == ChordDurationMatch(token)
    IN  IF dur_str = None THEN Ok(0, RInt(1))
        ELSE IF Has(dur_str, "/") THEN FractionDuration(dur_str)
        ELSE FloatOf(dur_str)

(***************************************************************************)
(* Tokenizer.                                                              *)
(***************************************************************************)
IsHeaderLine(l) == Len(l) >= 2 /\ l[1] \in UpperLetters /\ l[2] = ":"

RECURSIVE NoteLines(_)
NoteLines(lines) ==
    IF lines = <<>> THEN <<>>
    ELSE (IF IsHeaderLine(Head(lines)) THEN <<>> ELSE <<Head(lines)>>)
             \o NoteLines(Tail(lines))

RECURSIVE Join(_)
Join(lines) ==
    IF lines = <<>> THEN <<>>
    ELSE IF Len(lines) = 1 THEN Head(lines)
    ELSE Head(lines) \o <<" ">> \o Join(Tail(lines))

\* re.sub of every maximal run of characters of cs by one space
RECURSIVE SubRuns(_, _)
SubRuns(s, cs) ==
    IF s = <<>> THEN <<>>
    ELSE IF s[1] \in cs THEN <<" ">> \o SubRuns(LStrip(s, cs), cs)
    ELSE <<s[1]>> \o SubRuns(Tail(s), cs)

\* the header-stripped, bar-collapsed content tokenize_abc scans
Content(abc_str) ==
    LET lines == Split(Strip(abc_str, Whitespace), "\n")
        joined == Join(NoteLines(lines))
    IN  Strip(SubRuns(SubRuns(joined, {"|"}), Whitespace), Whitespace)

NoteStartChars == PitchLetters \cup RestLetters \cup AccidentalChars
DurationChars == Digits \cup {"/"}

\* content.find(']', i): the 0-based index, or -1
FindClose(content, i) ==
    IF \E k \in (i + 1)..Len(content) : content[k] = "]"
    THEN (CHOOSE k \in (i + 1)..Len(content) :
              content[k] = "]" /\ \A m \in (i + 1)..(k - 1) : content[m] # "]") - 1
    ELSE -1

\* the branch one iteration of the scanning loop takes at 0-based index i
TokBranch(content, i) ==
    LET c == content[i + 1]
    IN  IF c \in Whitespace THEN "whitespace"
        ELSE IF c = "[" THEN
            IF FindClose(content, i) = -1 THEN "stray_bracket" ELSE "chord"
        ELSE IF c \in NoteStartChars THEN "note"
        ELSE "unknown"

\* the chord branch: <<token, next index>>
ScanChord(content, i) ==
    LET end == FindClose(content, i)
        n == PrefixRun(Drop(content, end + 1), DurationChars)
    IN  <<SubSeq(content, i + 1, end + 1 + n), end + 1 + n>>

\* the note/rest branch: <<token, next index>>
ScanNote(content, i) ==
    LET a == PrefixRun(Drop(content, i), AccidentalChars)
        i1 == i + a
        l == IF i1 < Len(content) /\ content[i1 + 1] \in PitchLetters \cup RestLetters
             THEN 1 ELSE 0
        i2 == i1 + l
        o == PrefixRun(Drop(content, i2), OctaveChars)
        i3 == i2 + o
        d == PrefixRun(Drop(content, i3), DurationChars)
        i4 == i3 + d
    IN  <<SubSeq(content, i + 1, i4), i4>>

\* a scan that gives up at a stray bracket
TokStep_SkipAfterStray(content, i, toks) ==
    LET b == TokBranch(content, i)
    IN  IF b = "chord" THEN
            LET r == ScanChord(content, i) IN <<Append(toks, r[1]), r[2]>>
        ELSE IF b = "note" THEN
            LET r == ScanNote(content, i)
            IN  <<IF r[1] # <<>> THEN Append(toks, r[1]) ELSE toks, r[2]>>
        ELSE IF b = "stray_bracket" THEN <<toks, Len(content)>>
        ELSE <<toks, i + 1>>

\* a scan that reports a stray bracket and stays on it
TokStep_StuckOnStray(content, i, toks) ==
    LET b == TokBranch(content, i)
    IN  IF b = "chord" THEN
            LET r == ScanChord(content, i) IN <<Append(toks, r[1]), r[2]>>
        ELSE IF b = "note" THEN
            LET r == ScanNote(content, i)
            IN  <<IF r[1] # <<>> THEN Append(toks, r[1]) ELSE toks, r[2]>>
        ELSE IF b = "stray_bracket" THEN <<Append(toks, <<"[">>), i>>
        ELSE <<toks, i + 1>>

\* one iteration of the scanning loop: <<tokens, i>> afterwards
TokStep(content, i, toks) ==
    LET b == TokBranch(content, i)
    IN  IF b = "chord" THEN
            LET r == ScanChord(content, i) IN <<Append(toks, r[1]), r[2]>>
        ELSE IF b = "note" THEN
            LET r == ScanNote(content, i)
            IN  <<IF r[1] # <<>> THEN Append(toks, r[1]) ELSE toks, r[2]>>
        ELSE <<toks, i + 1>>

RECURSIVE TokLoop(_, _, _)
TokLoop(content, i, toks) ==
    IF i < Len(content)
    THEN LET r == TokStep(content, i, toks) IN TokLoop(content, r[2], r[1])
    ELSE toks

tokenize_abc(abc_str) == TokLoop(Content(abc_str), 0, <<>>)

(***************************************************************************)
(* Programs, the builder's step and the bar-length quantizer.              *)
(***************************************************************************)
VALID_BAR_LENGTHS ==
    <<Rat(1, 8), Rat(1, 4), Rat(1, 2), RInt(1), RInt(2), RInt(4), RInt(8), RInt(16)>>

Epsilon == Rat(1, 1000)
Tolerance == Rat(1, 100)
default_velocity == Rat(4, 5)

NoteEvent(midi, start, length) ==
    [pitch |-> RInt(midi), startBeat |-> start, lengthBeats |-> length,
     velocity |-> default_velocity]

RECURSIVE ChordEvents(_, _, _)
ChordEvents(pitches, start, length) ==
    IF pitches = <<>> THEN <<>>
    ELSE <<NoteEvent(Head(pitches), start, length)>>
             \o ChordEvents(Tail(pitches), start, length)

IsChordToken(token) == token # <<>> /\ token[1] = "["

\* what the body of the builder's loop computes for one token
TokenResult(token) ==
    IF IsChordToken(token) THEN ChordDuration(token) ELSE parse_abc_note(token)

\* the NoteEvents one token that parsed appends at the cursor
TokenEvents(token, r, cursor) ==
    IF IsChordToken(token) THEN ChordEvents(parse_abc_chord(token), cursor, r.dur)
    ELSE IF r.pitch >= 0 THEN <<NoteEvent(r.pitch, cursor, r.dur)>>
    ELSE <<>>

\* a cursor that rests do not move
Advance_SkipRests(cursor, r) == IF r.pitch = -1 THEN cursor ELSE RAdd(cursor, r.dur)

\* the cursor after one token that parsed
Advance(cursor, r) == RAdd(cursor, r.dur)

\* the search without the epsilon
RECURSIVE FirstFit_NoEpsilon(_, _)
FirstFit_NoEpsilon(valids, bars) ==
    IF valids = <<>> THEN VALID_BAR_LENGTHS[Len(VALID_BAR_LENGTHS)]
    ELSE IF RLe(bars, Head(valids)) THEN Head(valids)
    ELSE FirstFit_NoEpsilon(Tail(valids), bars)

\* the for/else over VALID_BAR_LENGTHS: first valid >= bars - 0.001, else the last
RECURSIVE FirstFit(_, _)
FirstFit(valids, bars) ==
    IF valids = <<>> THEN VALID_BAR_LENGTHS[Len(VALID_BAR_LENGTHS)]
    ELSE IF RLe(RSub(bars, Epsilon), Head(valids)) THEN Head(valids)
    ELSE FirstFit(Tail(valids), bars)

\* length_bars of abc_to_program
Quantize(total_beats, bpb) ==
    LET bars == IF bpb > 0 THEN RDiv(total_beats, RInt(bpb)) ELSE total_beats
    IN  FirstFit(VALID_BAR_LENGTHS, bars)

(***************************************************************************)
(* Scale sets and validation.                                              *)
(***************************************************************************)
ScaleNames == {"major", "minor", "dorian", "mixolydian", "pentatonic_major",
               "pentatonic_minor", "blues", "chromatic"}

SCALES(name) ==
    CASE name = "major" -> {0, 2, 4, 5, 7, 9, 11}
      [] name = "minor" -> {0, 2, 3, 5, 7, 8, 10}
      [] name = "dorian" -> {0, 2, 3, 5, 7, 9, 10}
      [] name = "mixolydian" -> {0, 2, 4, 5, 7, 9, 10}
      [] name = "pentatonic_major" -> {0, 2, 4, 7, 9}
      [] name = "pentatonic_minor" -> {0, 3, 5, 7, 10}
      [] name = "blues" -> {0, 3, 5, 6, 7, 10}
      [] name = "chromatic" -> 0..11

Octaves == 0..10
MidiPitches == 0..127

get_scale_notes(root, scale_name) ==
    IF scale_name \notin ScaleNames THEN {}
    ELSE {n \in {octave * 12 + (root % 12) + interval :
                     octave \in Octaves, interval \in SCALES(scale_name)} :
              n \in MidiPitches}

ProgramError(tag) == [idx |-> -1, tag |-> tag]
NoteError(idx, tag) == [idx |-> idx, tag |-> tag]

\* the lengthBars findings
LengthBarsErrors(length_bars) ==
    IF length_bars = None THEN <<ProgramError("Missing 'lengthBars'")>>
    ELSE IF ~\E k \in 1..Len(VALID_BAR_LENGTHS) :
                 RLt(RAbs(RSub(length_bars, VALID_BAR_LENGTHS[k])), Epsilon)
         THEN <<ProgramError("Invalid bar length")>>
    ELSE <<>>

IsValidPitch(pitch) == RIsInt(pitch) /\ pitch[1] >= 0 /\ pitch[1] <= 127

\* a validator that stops at the first finding of a note
NoteErrors_FirstOnly(idx, note, total_beats) ==
    IF note.pitch = None THEN <<NoteError(idx, "Missing 'pitch'")>>
    ELSE IF ~IsValidPitch(note.pitch) THEN <<NoteError(idx, "Invalid pitch")>>
    ELSE IF note.startBeat = None THEN <<NoteError(idx, "Missing 'startBeat'")>>
    ELSE IF RLt(note.startBeat, RInt(0)) THEN <<NoteError(idx, "Negative startBeat")>>
    ELSE IF RLt(RInt(0), total_beats) /\ RLe(total_beats, note.startBeat)
         THEN <<NoteError(idx, "Starts past program end")>>
    ELSE IF note.lengthBeats = None THEN <<NoteError(idx, "Missing 'lengthBeats'")>>
    ELSE IF RLe(note.lengthBeats, RInt(0))
         THEN <<NoteError(idx, "Non-positive duration")>>
    ELSE IF note.velocity = None THEN <<NoteError(idx, "Missing 'velocity'")>>
    ELSE IF RLt(note.velocity, RInt(0)) \/ RLt(RInt(1), note.velocity)
         THEN <<NoteError(idx, "Velocity must be 0.0-1.0")>>
    ELSE <<>>

\* the errors one note adds, in the order the code appends them (idx is 0-based)
NoteErrors(idx, note, total_beats) ==
    (IF note.pitch = None THEN <<NoteError(idx, "Missing 'pitch'")>>
     ELSE IF ~IsValidPitch(note.pitch) THEN <<NoteError(idx, "Invalid pitch")>>
     ELSE <<>>)
    \o
    (IF note.startBeat = None THEN <<NoteError(idx, "Missing 'startBeat'")>>
     ELSE IF RLt(note.startBeat, RInt(0)) THEN <<NoteError(idx, "Negative startBeat")>>
     ELSE IF RLt(RInt(0), total_beats) /\ RLe(total_beats, note.startBeat)
          THEN <<NoteError(idx, "Starts past program end")>>
     ELSE <<>>)
    \o
    (IF note.lengthBeats = None THEN <<NoteError(idx, "Missing 'lengthBeats'")>>
     ELSE IF RLe(note.lengthBeats, RInt(0))
          THEN <<NoteError(idx, "Non-positive duration")>>
     ELSE <<>>)
    \o
    (IF note.velocity = None THEN <<NoteError(idx, "Missing 'velocity'")>>
     ELSE IF RLt(note.velocity, RInt(0)) \/ RLt(RInt(1), note.velocity)
          THEN <<NoteError(idx, "Velocity must be 0.0-1.0")>>
     ELSE <<>>)

\* scale_notes: None (here {}) without key or scale; an empty set is falsy too
ScaleNotes(key, scale) ==
    IF key # None /\ scale # None /\ scale[1] # "" THEN get_scale_notes(key[1], scale[1])
    ELSE {}

\* the warnings one note adds
NoteWarnings(idx, note, scale_notes) ==
    IF note.pitch # None /\ IsValidPitch(note.pitch)
       /\ scale_notes # {} /\ note.pitch[1] \notin scale_notes
    THEN <<NoteError(idx, "Outside scale")>>
    ELSE <<>>

RECURSIVE NotesErrors(_, _, _)
NotesErrors(notes, idx, total_beats) ==
    IF idx >= Len(notes) THEN <<>>
    ELSE NoteErrors(idx, notes[idx + 1], total_beats)
             \o NotesErrors(notes, idx + 1, total_beats)

RECURSIVE NotesWarnings(_, _, _)
NotesWarnings(notes, idx, scale_notes) ==
    IF idx >= Len(notes) THEN <<>>
    ELSE NoteWarnings(idx, notes[idx + 1], scale_notes)
             \o NotesWarnings(notes, idx + 1, scale_notes)

\* a validator that reports an empty note list as an error
validate_program_EmptyError(program, key, scale, bpb) ==
    LET length_bars == program.lengthBars
        head == LengthBarsErrors(length_bars)
        total_beats == IF length_bars = None THEN RInt(0)
                       ELSE RMul(length_bars, RInt(bpb))
    IN  IF program.notes = <<>>
        THEN [errors |-> Append(head, ProgramError("Empty program")), warnings |-> <<>>]
        ELSE [errors |-> head \o NotesErrors(program.notes, 0, total_beats),
              warnings |-> NotesWarnings(program.notes, 0, ScaleNotes(key, scale))]

\* a validator that reports scale deviations as errors
validate_program_ScaleErrors(program, key, scale, bpb) ==
    LET length_bars == program.lengthBars
        head == LengthBarsErrors(length_bars)
        total_beats == IF length_bars = None THEN RInt(0)
                       ELSE RMul(length_bars, RInt(bpb))
    IN  IF program.notes = <<>>
        THEN [errors |-> head, warnings |-> <<ProgramError("Empty program")>>]
        ELSE [errors |-> head \o NotesErrors(program.notes, 0, total_beats)
                              \o NotesWarnings(program.notes, 0, ScaleNotes(key, scale)),
              warnings |-> <<>>]

\* program: [lengthBars: a rational or None, notes: a sequence of notes]
validate_program(program, key, scale, bpb) ==
    LET length_bars == program.lengthBars
        head == LengthBarsErrors(length_bars)
        total_beats == IF length_bars = None THEN RInt(0)
                       ELSE RMul(length_bars, RInt(bpb))
    IN  IF program.notes = <<>>
        THEN [errors |-> head, warnings |-> <<ProgramError("Empty program")>>]
        ELSE [errors |-> head \o NotesErrors(program.notes, 0, total_beats),
              warnings |-> NotesWarnings(program.notes, 0, ScaleNotes(key, scale))]

(***************************************************************************)
(* Serializer.                                                             *)
(***************************************************************************)
NaturalNotes == {0, 2, 4, 5, 7, 9, 11}

NaturalName(base_note) ==
    CASE base_note = 0 -> "C" [] base_note = 2 -> "D" [] base_note = 4 -> "E"
      [] base_note = 5 -> "F" [] base_note = 7 -> "G" [] base_note = 9 -> "A"
      [] base_note = 11 -> "B"

Lower(c) ==
    CASE c = "C" -> "c" [] c = "D" -> "d" [] c = "E" -> "e" [] c = "F" -> "f"
      [] c = "G" -> "g" [] c = "A" -> "a" [] c = "B" -> "b"

Repeat(c, n) == [k \in 1..n |-> c]

\* str(int(x)) for an integral x
IntStr(n) == IF n < 0 THEN <<"-">> \o IntToStr(-n) ELSE IntToStr(n)

Near(x, v) == RLt(RAbs(RSub(x, v)), Tolerance)

\* the letter, accidental and octave marks midi_to_abc writes
PitchText(pitch) ==
    LET octave == pitch \div 12
        note_in_octave == pitch % 12
        is_sharp == note_in_octave \notin NaturalNotes
        base_note == IF is_sharp THEN note_in_octave - 1 ELSE note_in_octave
        note_char == NaturalName(base_note)
    IN  IF octave >= 5
        THEN (IF is_sharp THEN <<"^">> ELSE <<>>) \o <<Lower(note_char)>>
                 \o Repeat("'", octave - 5)
        ELSE (IF is_sharp THEN <<"^">> ELSE <<>>) \o <<note_char>>
                 \o (IF octave < 4 THEN Repeat(",", 4 - octave) ELSE <<>>)

\* a suffix that keeps whole beats only
DurationText_Whole(duration_beats) ==
    IF Near(duration_beats, Rat(1, 4)) THEN <<"/", "4">>
    ELSE IF Near(duration_beats, Rat(1, 2)) THEN <<"/", "2">>
    ELSE IF Near(duration_beats, RInt(1)) THEN <<>>
    ELSE IF RTrunc(duration_beats) > 0 THEN IntStr(RTrunc(duration_beats))
    ELSE <<>>

\* the duration suffix midi_to_abc writes
DurationText(duration_beats) ==
    IF Near(duration_beats, Rat(1, 4)) THEN <<"/", "4">>
    ELSE IF Near(duration_beats, Rat(1, 2)) THEN <<"/", "2">>
    ELSE IF Near(duration_beats, RInt(1)) THEN <<>>
    ELSE IF Near(duration_beats, RInt(2)) THEN <<"2">>
    ELSE IF Near(duration_beats, RInt(3)) THEN <<"3">>
    ELSE IF Near(duration_beats, RInt(4)) THEN <<"4">>
    ELSE IF RIsInt(duration_beats) THEN IntStr(duration_beats[1])
    ELSE LET numerator == RTrunc(RMul(duration_beats, RInt(4)))
         IN  IF numerator > 0 THEN IntToStr(numerator) \o <<"/", "4">> ELSE <<>>

midi_to_abc(pitch, duration_beats) == PitchText(pitch) \o DurationText(duration_beats)

\* the shared suffix program_to_abc writes after a chord
ChordSuffix(duration) ==
    IF RLt(Tolerance, RAbs(RSub(duration, RInt(1)))) THEN
        IF RIsInt(duration) THEN IntStr(duration[1])
        ELSE IF Near(duration, Rat(1, 2)) THEN <<"/", "2">>
        ELSE IF Near(duration, Rat(1, 4)) THEN <<"/", "4">>
        ELSE <<>>
    ELSE <<>>

\* note.get(field, default)
GetOr(v, default) == IF v = None THEN default ELSE v

StartOf(note) == GetOr(note.startBeat, RInt(0))

\* by_time[start]: the notes of one start time, in list order
GroupAt(notes, start) == SelectSeq(notes, LAMBDA n : StartOf(n) = start)

\* sorted(by_time.keys())
RECURSIVE SortedTimes(_)
SortedTimes(S) ==
    IF S = {} THEN <<>>
    ELSE LET m == CHOOSE x \in S : \A y \in S : RLe(x, y)
         IN  <<m>> \o SortedTimes(S \ {m})

RECURSIVE ChordText(_)
ChordText(group) ==
    IF group = <<>> THEN <<>>
    ELSE midi_to_abc(Head(group).pitch[1], RInt(1)) \o ChordText(Tail(group))

\* the part one group contributes
GroupText(group) ==
    IF Len(group) = 1
    THEN midi_to_abc(group[1].pitch[1], GetOr(group[1].lengthBeats, RInt(1)))
    ELSE <<"[">> \o ChordText(group) \o <<"]">>
             \o ChordSuffix(GetOr(group[1].lengthBeats, RInt(1)))

\* the "new bar" test before a group
NewBar(start_time, bpb, notes_in_bar) ==
    /\ RFloorDiv(start_time, RInt(bpb)) > 0
    /\ notes_in_bar > 0
    /\ RLt(RMod(start_time, RInt(bpb)), Tolerance)

\* abc_parts for the groups of times, with notes_in_bar carried along
RECURSIVE AbcParts(_, _, _, _)
AbcParts(notes, times, bpb, notes_in_bar) ==
    IF times = <<>> THEN <<>>
    ELSE LET bar == NewBar(Head(times), bpb, notes_in_bar)
         IN  (IF bar THEN << <<"|">> >> ELSE <<>>)
                 \o << GroupText(GroupAt(notes, Head(times))) >>
                 \o AbcParts(notes, Tail(times), bpb,
                             (IF bar THEN 0 ELSE notes_in_bar) + 1)

program_to_abc(program, bpb) ==
    IF program.notes = <<>> THEN <<"z", "4", " ", "|">>
    ELSE LET notes == program.notes
             times == SortedTimes({StartOf(notes[k]) : k \in 1..Len(notes)})
         IN  Join(AbcParts(notes, times, bpb, 0) \o << <<"|">> >>)

\* the builder as a function of the token list: [notes, cursor, errors, raised]
RECURSIVE BuildLoop(_, _, _, _)
BuildLoop(toks, notes, cursor, errs) ==
    IF toks = <<>>
    THEN [notes |-> notes, cursor |-> cursor, errors |-> errs, raised |-> FALSE]
    ELSE LET r == TokenResult(Head(toks))
         IN  IF r.kind = "ZeroDivisionError"
             THEN [notes |-> notes, cursor |-> cursor, errors |-> errs, raised |-> TRUE]
             ELSE IF r.kind = "ValueError"
             THEN BuildLoop(Tail(toks), notes, cursor, Append(errs, r.msg))
             ELSE BuildLoop(Tail(toks), notes \o TokenEvents(Head(toks), r, cursor),
                            Advance(cursor, r), errs)

\* abc_to_program: [program, errors, raised]
abc_to_program(abc_str, bpb) ==
    LET b == BuildLoop(tokenize_abc(abc_str), <<>>, RInt(0), <<>>)
    IN  [program |-> [lengthBars |-> Quantize(b.cursor, bpb), notes |-> b.notes],
         errors |-> b.errors, raised |-> b.raised]

(***************************************************************************)
(* Bounds of the model and the inputs drawn within them.                   *)
(***************************************************************************)
MaxPieces == 2

\* notation fragments; an input text is up to MaxPieces of them, concatenated
Pieces ==
    { <<"C">>, <<"^", "c", "'">>, <<"z">>, <<"[", "C", "E", "]">>,
      <<"[", "C", "2", "]">>, <<"[", "C", ",", "'", "E", "]">>, <<"^", " ">>,
      <<"2">>, <<"/", "0">>, <<"/">>, <<"z", "9", "9", " ">>, <<" ">>, <<"|">>,
      <<"-">>, <<"[">>, <<"0">>, <<"K", ":", "C", "\n">>, <<"]">>, <<"g", "3", "/", "2">> }

Texts == {Concat(ps) : ps \in UNION {[1..n -> Pieces] : n \in 0..MaxPieces}}

BeatsPerBarChoices == {1, 4}
KeyScaleChoices == { <<None, None>>, <<<<0>>, <<"major">>>> }

\* program documents handed to the --json entry
MaxDocNotes == 2

DocNotes ==
    [pitch : {None, RInt(1), RInt(60), RInt(128)},
     startBeat : {RInt(0), RInt(4)},
     lengthBeats : {RInt(1)},
     velocity : {default_velocity, RInt(2)}]

Docs ==
    [lengthBars : {None, RInt(1), RInt(3)},
     notes : UNION {[1..n -> DocNotes] : n \in 0..MaxDocNotes}]

DocKeyScaleChoices ==
    { <<None, None>>, <<<<0>>, <<"major">>>>, <<<<11>>, <<"major">>>>,
      <<<<0>>, <<"bogus">>>> }

\* program documents for the validator alone: one note drawn from every
\* combination of present, missing and out-of-range fields, the others from
\* a few fixed notes
MaxValNotes == 2

FieldNotes ==
    [pitch : {None, RInt(60), RInt(128), Rat(121, 2)},
     startBeat : {None, RInt(-1), RInt(0), RInt(4)},
     lengthBeats : {None, RInt(0), RInt(5)},
     velocity : {None, default_velocity, RInt(2), Rat(-1, 2)}]

FixedNotes ==
    { [pitch |-> RInt(60), startBeat |-> RInt(0), lengthBeats |-> RInt(1),
       velocity |-> default_velocity],
      [pitch |-> None, startBeat |-> None, lengthBeats |-> None, velocity |-> None],
      [pitch |-> RInt(128), startBeat |-> RInt(4), lengthBeats |-> RInt(0),
       velocity |-> RInt(2)] }

ValNoteLists ==
    UNION { { [j \in 1..n |-> IF j = k THEN x ELSE f[j]] :
                  k \in 1..n, x \in FieldNotes, f \in [1..n -> FixedNotes] }
            : n \in 1..MaxValNotes }

ValDocs == [lengthBars : {None, RInt(0), RInt(1), RInt(3)}, notes : ValNoteLists]

\* single note and rest tokens: accidental, letter, octave markers, suffix
MaxMarkers == 5

TokenAccidentals == { <<>>, <<"^">>, <<"^", "^">>, <<"_">>, <<"_", "_">>, <<"=">> }
TokenLetters == {"C", "g", "b"}
MarkerRuns == UNION {[1..n -> OctaveChars] : n \in 0..MaxMarkers}
TokenSuffixes ==
    { <<>>, <<"2">>, <<"/", "2">>, <<"3", "/", "2">>, <<"2", "/", "3", "/", "4">>,
      <<"/">>, <<"2", "/">>, <<"/", "0">> }

NoteTexts ==
    { a \o <<l>> \o m \o x :
          a \in TokenAccidentals, l \in TokenLetters, m \in MarkerRuns,
          x \in TokenSuffixes }

RestTokenTexts ==
    { <<l>> \o m \o x : l \in RestLetters, m \in MarkerRuns, x \in TokenSuffixes }

TokenTexts == NoteTexts \cup RestTokenTexts

\* single notes serialized and parsed back: every pitch, durations k/4
MaxQuarters == 20

SingleNotes == { NoteEvent(p, RInt(0), Rat(k, 4)) : p \in MidiPitches, k \in 1..MaxQuarters }

\* programs serialized for their bar lines: notes on and off the bar boundaries
MaxBarNotes == 3

BarNotes ==
    { NoteEvent(p, RInt(s), RInt(1)) : p \in {60, 64}, s \in {0, 1, 4, 5, 9} }

BarPrograms ==
    [lengthBars : {RInt(4)},
     notes : UNION {[1..n -> BarNotes] : n \in 1..MaxBarNotes}]

BarBeatsPerBarChoices == {2, 4}

\* texts given to the gilligan commands (args.abc, or the content of args.file)
MaxCliPieces == 2

CliPieces ==
    { <<"C">>, <<"z", "9", "9", " ">>, <<"/", "0">>, <<"^", " ">>, <<" ">>,
      <<"[", "C", "E", "]">> }

CliTexts == {Concat(ps) : ps \in UNION {[1..n -> CliPieces] : n \in 0..MaxCliPieces}}

\* program files given to `stage --json`; they are staged as they are
JsonFiles ==
    { None,
      <<[lengthBars |-> RInt(1), notes |-> <<>>]>>,
      <<[lengthBars |-> None, notes |-> <<NoteEvent(128, RInt(0), RInt(0))>>]>> }

\* the optional requests of the workflow before the validation
SetupChoices == SUBSET {"tempo", "timesig"}

\* the default of the beats_per_bar parameters
DefaultBeatsPerBar == 4

\* programs serialized and parsed back
MaxRoundTripNotes == 2

RoundTripNotes ==
    { NoteEvent(p, s, l) :
          p \in {48, 61, 127},
          s \in {RInt(0), RInt(1), RInt(4)},
          l \in {Rat(1, 2), RInt(1), Rat(3, 2), RInt(2)} }

RoundTripPrograms ==
    [lengthBars : {RInt(2)},
     notes : UNION {[1..n -> RoundTripNotes] : n \in 1..MaxRoundTripNotes}]

\* rest-only texts "z<n>/<d>", optionally followed by one more short rest
MaxRestBeats == 20

RestDenominators == {1, 8}
RestTails == { <<>>, <<" ", "z", "1", "/", "2", "0", "0", "0">>,
               <<" ", "z", "1", "/", "5", "0", "0">> }

RestTexts ==
    { <<"z">> \o IntToStr(n) \o <<"/">> \o IntToStr(d) \o tail :
          n \in 0..MaxRestBeats, d \in RestDenominators, tail \in RestTails }

QuantBeatsPerBarChoices == {1, 2, 4}

\* texts validated twice: the second time as the normalized text of the first
MaxIdemPieces == 3

IdemPieces ==
    { <<"C", "/", "8", " ">>, <<"C", "1", "5", " ">>, <<"C", " ">>, <<"z", " ">>,
      <<"[", "C", "E", "]", "3", "/", "2", " ">>, <<"c", "/", "2", " ">> }

IdemTexts == {Concat(ps) : ps \in UNION {[1..n -> IdemPieces] : n \in 0..MaxIdemPieces}}

(***************************************************************************)
(* The state of one run of the validator.                                  *)
(***************************************************************************)
VARIABLES
    pc,             \* where the run is
    doc,            \* the program document supplied by the caller, or None
    abc_str,        \* the notation text
    key, scale,     \* None or <<value>>
    beats_per_bar,
    content, i, tokens,                     \* tokenize_abc
    t, notes, current_beat, parse_errors,   \* abc_to_program (t: tokens consumed)
    program,        \* None or <<program>>
    errors, warnings,
    result,         \* None or <<ValidationResult>>
    cli             \* the gilligan command that runs the validator, or NoCli

vars == <<pc, doc, abc_str, key, scale, beats_per_bar, content, i, tokens,
          t, notes, current_beat, parse_errors, program, errors, warnings, result,
          cli>>

tokVars == <<content, i, tokens>>
buildVars == <<t, notes, current_beat, parse_errors>>
inputVars == <<doc, abc_str, key, scale, beats_per_bar, cli>>
outVars == <<program, errors, warnings, result>>

ValidationResult(valid, prog, errs, warns, abc_output) ==
    [valid |-> valid, program |-> prog, errors |-> errs, warnings |-> warns,
     abc_output |-> abc_output]

\* no gilligan command: the validator is called directly
NoCli ==
    [command |-> "none", json_file |-> None, track |-> FALSE, setup |-> {},
     requests |-> <<>>, staging_file |-> None, exit_code |-> -1]

Blank ==
    /\ content = <<>> /\ i = 0 /\ tokens = <<>>
    /\ t = 0 /\ notes = <<>> /\ current_beat = RInt(0) /\ parse_errors = <<>>
    /\ program = None /\ errors = <<>> /\ warnings = <<>> /\ result = None

\* validate_abc(abc_str, key, scale, beats_per_bar) is called
InitText ==
    /\ pc = "call"
    /\ doc = None
    /\ abc_str \in Texts
    /\ \E ks \in KeyScaleChoices : key = ks[1] /\ scale = ks[2]
    /\ beats_per_bar \in BeatsPerBarChoices
    /\ Blank
    /\ cli = NoCli

\* main() with --json: a parsed program document is about to be validated
InitJson ==
    /\ pc = "json"
    /\ \E d \in Docs : doc = <<d>>
    /\ abc_str = <<>>
    /\ \E ks \in DocKeyScaleChoices : key = ks[1] /\ scale = ks[2]
    /\ beats_per_bar = DefaultBeatsPerBar
    /\ Blank
    /\ cli = NoCli

Init == InitText \/ InitJson

\* a program is about to be serialized and parsed back
InitRoundTrip ==
    /\ pc = "serialize"
    /\ \E d \in RoundTripPrograms : doc = <<d>>
    /\ abc_str = <<>>
    /\ key = None /\ scale = None
    /\ beats_per_bar = DefaultBeatsPerBar
    /\ Blank
    /\ cli = NoCli

\* validate_abc is called on a text of rests
InitRests ==
    /\ pc = "call"
    /\ doc = None
    /\ abc_str \in RestTexts
    /\ key = None /\ scale = None
    /\ beats_per_bar \in QuantBeatsPerBarChoices
    /\ Blank
    /\ cli = NoCli

\* validate_abc is called on a text whose normalized text is validated again
InitIdem ==
    /\ pc = "call"
    /\ doc = None
    /\ abc_str \in IdemTexts
    /\ key = None /\ scale = None
    /\ beats_per_bar \in BeatsPerBarChoices
    /\ Blank
    /\ cli = NoCli

\* validate_program is about to be called on a program document
InitValidate ==
    /\ pc = "json"
    /\ \E d \in ValDocs : doc = <<d>>
    /\ abc_str = <<>>
    /\ key = None /\ scale = None
    /\ beats_per_bar = DefaultBeatsPerBar
    /\ Blank
    /\ cli = NoCli

\* abc_to_program is called on a text that is one note or rest token
InitToken ==
    /\ pc = "call"
    /\ doc = None
    /\ abc_str \in TokenTexts
    /\ key = None /\ scale = None
    /\ beats_per_bar = DefaultBeatsPerBar
    /\ Blank
    /\ cli = NoCli

\* tokenize_abc is called on a text
InitTok ==
    /\ pc = "call"
    /\ doc = None
    /\ abc_str \in Texts
    /\ key = None /\ scale = None
    /\ beats_per_bar = DefaultBeatsPerBar
    /\ Blank
    /\ cli = NoCli

\* a single note is about to be serialized and parsed back
InitSingle ==
    /\ pc = "serialize"
    /\ \E n \in SingleNotes : doc = <<[lengthBars |-> RInt(8), notes |-> <<n>>]>>
    /\ abc_str = <<>>
    /\ key = None /\ scale = None
    /\ beats_per_bar = DefaultBeatsPerBar
    /\ Blank
    /\ cli = NoCli

\* program_to_abc is about to be called on a program
InitBars ==
    /\ pc = "serialize"
    /\ \E d \in BarPrograms : doc = <<d>>
    /\ abc_str = <<>>
    /\ key = None /\ scale = None
    /\ beats_per_bar \in BarBeatsPerBarChoices
    /\ Blank
    /\ cli = NoCli

\* main() of gilligan.py dispatches `stage` or `workflow`
InitCli ==
    /\ pc = "cli"
    /\ doc = None
    /\ abc_str \in CliTexts
    /\ \E ks \in KeyScaleChoices : key = ks[1] /\ scale = ks[2]
    /\ beats_per_bar = DefaultBeatsPerBar
    /\ Blank
    /\ \/ \E f \in JsonFiles :
              cli = [NoCli EXCEPT !.command = "stage", !.json_file = f]
       \/ \E tr \in BOOLEAN, su \in SetupChoices :
              cli = [NoCli EXCEPT !.command = "workflow", !.track = tr, !.setup = su]

(***************************************************************************)
(* tokenize_abc: the preprocessing, then one action per branch of the      *)
(* scanning loop.                                                          *)
(***************************************************************************)
Preprocess ==
    /\ pc = "call"
    /\ content' = Content(abc_str)
    /\ i' = 0
    /\ tokens' = <<>>
    /\ pc' = "tokenize"
    /\ UNCHANGED <<inputVars, buildVars, outVars>>

TokWhitespace ==
    /\ pc = "tokenize" /\ i < Len(content)
    /\ TokBranch(content, i) = "whitespace"
    /\ i' = TokStep(content, i, tokens)[2]
    /\ tokens' = TokStep(content, i, tokens)[1]
    /\ UNCHANGED <<pc, content, inputVars, buildVars, outVars>>

TokChord ==
    /\ pc = "tokenize" /\ i < Len(content)
    /\ TokBranch(content, i) = "chord"
    /\ i' = TokStep(content, i, tokens)[2]
    /\ tokens' = TokStep(content, i, tokens)[1]
    /\ UNCHANGED <<pc, content, inputVars, buildVars, outVars>>

TokStrayBracket ==
    /\ pc = "tokenize" /\ i < Len(content)
    /\ TokBranch(content, i) = "stray_bracket"
    /\ i' = TokStep(content, i, tokens)[2]
    /\ tokens' = TokStep(content, i, tokens)[1]
    /\ UNCHANGED <<pc, content, inputVars, buildVars, outVars>>

TokNote ==
    /\ pc = "tokenize" /\ i < Len(content)
    /\ TokBranch(content, i) = "note"
    /\ i' = TokStep(content, i, tokens)[2]
    /\ tokens' = TokStep(content, i, tokens)[1]
    /\ UNCHANGED <<pc, content, inputVars, buildVars, outVars>>

TokUnknown ==
    /\ pc = "tokenize" /\ i < Len(content)
    /\ TokBranch(content, i) = "unknown"
    /\ i' = TokStep(content, i, tokens)[2]
    /\ tokens' = TokStep(content, i, tokens)[1]
    /\ UNCHANGED <<pc, content, inputVars, buildVars, outVars>>

TokReturn ==
    /\ pc = "tokenize"
    /\ i >= Len(content)
    /\ pc' = "build"
    /\ UNCHANGED <<tokVars, inputVars, buildVars, outVars>>

(***************************************************************************)
(* abc_to_program: one action per token, by the outcome of its parse.      *)
(***************************************************************************)
BuildChord ==
    /\ pc = "build" /\ t < Len(tokens)
    /\ IsChordToken(tokens[t + 1])
    /\ TokenResult(tokens[t + 1]).kind = "ok"
    /\ notes' = notes \o TokenEvents(tokens[t + 1], TokenResult(tokens[t + 1]),
                                     current_beat)
    /\ current_beat' = Advance(current_beat, TokenResult(tokens[t + 1]))
    /\ t' = t + 1
    /\ UNCHANGED <<pc, parse_errors, tokVars, inputVars, outVars>>

BuildNote ==
    /\ pc = "build" /\ t < Len(tokens)
    /\ ~IsChordToken(tokens[t + 1])
    /\ TokenResult(tokens[t + 1]).kind = "ok"
    /\ notes' = notes \o TokenEvents(tokens[t + 1], TokenResult(tokens[t + 1]),
                                     current_beat)
    /\ current_beat' = Advance(current_beat, TokenResult(tokens[t + 1]))
    /\ t' = t + 1
    /\ UNCHANGED <<pc, parse_errors, tokVars, inputVars, outVars>>

\* except ValueError as e: errors.append(str(e))
BuildValueError ==
    /\ pc = "build"
    /\ t < Len(tokens)
    /\ LET r == TokenResult(tokens[t + 1])
       IN  /\ r.kind = "ValueError"
           /\ parse_errors' = Append(parse_errors, r.msg)
    /\ t' = t + 1
    /\ UNCHANGED <<pc, notes, current_beat, tokVars, inputVars, outVars>>

\* a ZeroDivisionError is no ValueError: it leaves abc_to_program and validate_abc
BuildZeroDivision ==
    /\ pc = "build"
    /\ t < Len(tokens)
    /\ TokenResult(tokens[t + 1]).kind = "ZeroDivisionError"
    /\ pc' = "raised"
    /\ UNCHANGED <<tokVars, inputVars, buildVars, outVars>>

\* the loop is over: quantize the elapsed beats and return (program, errors)
BuilderReturn ==
    /\ pc = "build"
    /\ t >= Len(tokens)
    /\ program' = <<[lengthBars |-> Quantize(current_beat, beats_per_bar),
                     notes |-> notes]>>
    /\ pc' = "parsed"
    /\ UNCHANGED <<tokVars, inputVars, buildVars, errors, warnings, result>>

(***************************************************************************)
(* validate_abc after abc_to_program returned.                             *)
(***************************************************************************)
ReturnParseErrors ==
    /\ pc = "parsed"
    /\ parse_errors # <<>>
    /\ result' = <<ValidationResult(FALSE, None, parse_errors, <<>>, None)>>
    /\ pc' = "done"
    /\ UNCHANGED <<tokVars, inputVars, buildVars, program, errors, warnings>>

Validate ==
    /\ pc = "parsed"
    /\ parse_errors = <<>>
    /\ LET v == validate_program(program[1], key, scale, beats_per_bar)
       IN  errors' = v.errors /\ warnings' = v.warnings
    /\ pc' = "validated"
    /\ UNCHANGED <<tokVars, inputVars, buildVars, program, result>>

\* an invalid result that carries the normalized text all the same
ReturnInvalid_WithText ==
    /\ pc = "validated"
    /\ errors # <<>>
    /\ result' = <<ValidationResult(FALSE, program, errors, warnings,
                                    <<program_to_abc(program[1], beats_per_bar)>>)>>
    /\ pc' = "done"
    /\ UNCHANGED <<tokVars, inputVars, buildVars, program, errors, warnings>>

ReturnInvalid ==
    /\ pc = "validated"
    /\ errors # <<>>
    /\ result' = <<ValidationResult(FALSE, program, errors, warnings, None)>>
    /\ pc' = "done"
    /\ UNCHANGED <<tokVars, inputVars, buildVars, program, errors, warnings>>

ReturnValid ==
    /\ pc = "validated"
    /\ errors = <<>>
    /\ result' = <<ValidationResult(TRUE, program, <<>>, warnings,
                                    <<program_to_abc(program[1], beats_per_bar)>>)>>
    /\ pc' = "done"
    /\ UNCHANGED <<tokVars, inputVars, buildVars, program, errors, warnings>>

(***************************************************************************)
(* main() with --json: validate the document, serialize it when valid.     *)
(***************************************************************************)
ValidateJson ==
    /\ pc = "json"
    /\ program' = doc
    /\ errors' = validate_program(doc[1], key, scale, DefaultBeatsPerBar).errors
    /\ warnings' = validate_program(doc[1], key, scale, DefaultBeatsPerBar).warnings
    /\ result' = <<ValidationResult(errors' = <<>>, doc, errors', warnings',
                                    IF errors' = <<>>
                                    THEN <<program_to_abc(doc[1], DefaultBeatsPerBar)>>
                                    ELSE None)>>
    /\ pc' = "done"
    /\ UNCHANGED <<tokVars, inputVars, buildVars>>

(***************************************************************************)
(* Round trip: program_to_abc, whose text abc_to_program then reads.       *)
(***************************************************************************)
Serialize ==
    /\ pc = "serialize"
    /\ abc_str' = program_to_abc(doc[1], beats_per_bar)
    /\ pc' = "call"
    /\ UNCHANGED <<doc, key, scale, beats_per_bar, cli, tokVars, buildVars, outVars>>

(***************************************************************************)
(* validate_abc called again, on the abc_output of a valid result; doc     *)
(* keeps the program of the first call.                                    *)
(***************************************************************************)
Revalidate ==
    /\ pc = "done"
    /\ doc = None
    /\ result[1].valid
    /\ abc_str' = result[1].abc_output[1]
    /\ doc' = result[1].program
    /\ content' = <<>> /\ i' = 0 /\ tokens' = <<>>
    /\ t' = 0 /\ notes' = <<>> /\ current_beat' = RInt(0) /\ parse_errors' = <<>>
    /\ program' = None /\ errors' = <<>> /\ warnings' = <<>> /\ result' = None
    /\ pc' = "call"
    /\ UNCHANGED <<key, scale, beats_per_bar, cli>>

(***************************************************************************)
(* gilligan.py: cmd_stage and cmd_workflow.  validate_abc of gilligan.py   *)
(* runs the validator as a subprocess (pc = "call" up to "done" or         *)
(* "raised") and reads its standard output; the Gilligan API and the       *)
(* staging file are the environment, so the answer of a request and the    *)
(* outcome of reading the file back are chosen freely.                     *)
(***************************************************************************)
Request(command, prog, ok) == [command |-> command, program |-> prog, ok |-> ok]

\* api_call(command, args): the request is sent and answered
api_call(command, prog, ok) == [cli EXCEPT !.requests = Append(@, Request(command, prog, ok))]

Exit(c, code) == [c EXCEPT !.exit_code = code]

\* the dict validate_abc of gilligan.py returns: the validator's output, or
\* valid = False when the output is no JSON (the validator raised)
validation ==
    IF pc = "done" THEN result[1]
    ELSE ValidationResult(FALSE, None, <<ProgramError("Validator error")>>, <<>>, None)

ValidatorReturned == pc \in {"done", "raised"}

\* cmd_stage: neither --abc nor --json
StageNoInput ==
    /\ pc = "cli" /\ cli.command = "stage"
    /\ abc_str = <<>> /\ cli.json_file = None
    /\ cli' = Exit(cli, 1)
    /\ pc' = "exit"
    /\ UNCHANGED <<doc, abc_str, key, scale, beats_per_bar, tokVars, buildVars, outVars>>

\* cmd_stage with --json only: the program is loaded, not validated
StageLoadJson ==
    /\ pc = "cli" /\ cli.command = "stage"
    /\ abc_str = <<>> /\ cli.json_file # None
    /\ program' = cli.json_file
    /\ pc' = "loaded"
    /\ UNCHANGED <<inputVars, tokVars, buildVars, errors, warnings, result>>

\* cmd_stage with --abc: validate first
StageValidate ==
    /\ pc = "cli" /\ cli.command = "stage"
    /\ abc_str # <<>>
    /\ pc' = "call"
    /\ UNCHANGED <<inputVars, tokVars, buildVars, outVars>>

StageValidationFailed ==
    /\ ValidatorReturned /\ cli.command = "stage"
    /\ ~validation.valid
    /\ cli' = Exit(cli, 1)
    /\ pc' = "exit"
    /\ UNCHANGED <<doc, abc_str, key, scale, beats_per_bar, tokVars, buildVars, outVars>>

\* cmd_stage: stage via the API; the exit code follows the answer
StageRequest ==
    /\ cli.command = "stage"
    /\ \/ pc = "done" /\ validation.valid
       \/ pc = "loaded"
    /\ \E ok \in BOOLEAN :
           cli' = Exit(api_call("stage", IF pc = "done" THEN validation.program ELSE program,
                                ok),
                       IF ok THEN 0 ELSE 1)
    /\ pc' = "exit"
    /\ UNCHANGED <<doc, abc_str, key, scale, beats_per_bar, tokVars, buildVars, outVars>>

\* cmd_workflow: neither --abc nor a file
WorkflowNoInput ==
    /\ pc = "cli" /\ cli.command = "workflow"
    /\ abc_str = <<>>
    /\ cli' = Exit(cli, 1)
    /\ pc' = "exit"
    /\ UNCHANGED <<doc, abc_str, key, scale, beats_per_bar, tokVars, buildVars, outVars>>

\* cmd_workflow: no track name
WorkflowNoTrack ==
    /\ pc = "cli" /\ cli.command = "workflow"
    /\ abc_str # <<>> /\ ~cli.track
    /\ cli' = Exit(cli, 1)
    /\ pc' = "exit"
    /\ UNCHANGED <<doc, abc_str, key, scale, beats_per_bar, tokVars, buildVars, outVars>>

\* cmd_workflow: the tempo and time signature requests, then step 1
WorkflowValidate ==
    /\ pc = "cli" /\ cli.command = "workflow"
    /\ abc_str # <<>> /\ cli.track
    /\ \E ok_tempo, ok_timesig \in BOOLEAN :
           cli' = [cli EXCEPT !.requests =
                      (IF "tempo" \in cli.setup
                       THEN <<Request("tempo", None, ok_tempo)>> ELSE <<>>)
                      \o (IF "timesig" \in cli.setup
                          THEN <<Request("timesig", None, ok_timesig)>> ELSE <<>>)]
    /\ pc' = "call"
    /\ UNCHANGED <<doc, abc_str, key, scale, beats_per_bar, tokVars, buildVars, outVars>>

WorkflowValidationFailed ==
    /\ ValidatorReturned /\ cli.command = "workflow"
    /\ ~validation.valid
    /\ cli' = Exit(cli, 1)
    /\ pc' = "exit"
    /\ UNCHANGED <<doc, abc_str, key, scale, beats_per_bar, tokVars, buildVars, outVars>>

\* cmd_workflow step 2: the staging file is written and read back
WorkflowWrite ==
    /\ pc = "done" /\ cli.command = "workflow"
    /\ validation.valid
    /\ \E verified \in BOOLEAN :
           IF verified
           THEN /\ cli' = [cli EXCEPT !.staging_file = validation.program]
                /\ pc' = "written"
           ELSE /\ cli' = Exit([cli EXCEPT !.staging_file = validation.program], 1)
                /\ pc' = "exit"
    /\ UNCHANGED <<doc, abc_str, key, scale, beats_per_bar, tokVars, buildVars, outVars>>

\* a workflow that fails when Gilligan does not answer
WorkflowNotify_FailOnError ==
    /\ pc = "written" /\ cli.command = "workflow"
    /\ \E ok \in BOOLEAN :
           cli' = Exit(api_call("stage", cli.staging_file, ok), IF ok THEN 0 ELSE 1)
    /\ pc' = "exit"
    /\ UNCHANGED <<doc, abc_str, key, scale, beats_per_bar, tokVars, buildVars, outVars>>

\* cmd_workflow step 3: notify Gilligan; an error is only a warning
WorkflowNotify ==
    /\ pc = "written" /\ cli.command = "workflow"
    /\ \E ok \in BOOLEAN :
           cli' = Exit(api_call("stage", cli.staging_file, ok), 0)
    /\ pc' = "exit"
    /\ UNCHANGED <<doc, abc_str, key, scale, beats_per_bar, tokVars, buildVars, outVars>>

Next ==
    \/ ValidateJson
    \/ Preprocess
    \/ TokWhitespace \/ TokChord \/ TokStrayBracket \/ TokNote \/ TokUnknown
    \/ TokReturn
    \/ BuildChord \/ BuildNote \/ BuildValueError \/ BuildZeroDivision
    \/ BuilderReturn
    \/ ReturnParseErrors \/ Validate \/ ReturnInvalid \/ ReturnValid

Spec == Init /\ [][Next]_vars

\* abc_to_program(program_to_abc(program))
NextRoundTrip ==
    \/ Serialize
    \/ Preprocess
    \/ TokWhitespace \/ TokChord \/ TokNote
    \/ TokReturn
    \/ BuildChord \/ BuildNote
    \/ BuilderReturn

SpecRoundTrip == InitRoundTrip /\ [][NextRoundTrip]_vars

\* abc_to_program on texts of rests
NextRests ==
    \/ Preprocess
    \/ TokWhitespace \/ TokNote
    \/ TokReturn
    \/ BuildNote
    \/ BuilderReturn

SpecRests == InitRests /\ [][NextRests]_vars

\* validate_abc(validate_abc(text).abc_output)
NextIdem ==
    \/ Preprocess
    \/ TokWhitespace \/ TokChord \/ TokNote
    \/ TokReturn
    \/ BuildChord \/ BuildNote
    \/ BuilderReturn
    \/ Validate \/ ReturnInvalid \/ ReturnValid
    \/ Revalidate

SpecIdem == InitIdem /\ [][NextIdem]_vars

\* validate_program on a program document
NextValidate == ValidateJson

SpecValidate == InitValidate /\ [][NextValidate]_vars

\* abc_to_program on one note or rest token
NextToken ==
    \/ Preprocess
    \/ TokNote
    \/ TokReturn
    \/ BuildNote \/ BuildValueError \/ BuildZeroDivision
    \/ BuilderReturn

SpecToken == InitToken /\ [][NextToken]_vars

\* tokenize_abc alone
NextTok ==
    \/ Preprocess
    \/ TokWhitespace \/ TokChord \/ TokStrayBracket \/ TokNote \/ TokUnknown
    \/ TokReturn

SpecTok == InitTok /\ [][NextTok]_vars

\* the scanning loop runs in one thread that is never suspended for good
ScanLoop ==
    \/ TokWhitespace \/ TokChord \/ TokStrayBracket \/ TokNote \/ TokUnknown
    \/ TokReturn

SpecTokLive == SpecTok /\ WF_vars(ScanLoop)

\* parse_abc_note(midi_to_abc(pitch, duration)), by way of program_to_abc and
\* abc_to_program on a program of one note
NextSingle ==
    \/ Serialize
    \/ Preprocess
    \/ TokNote
    \/ TokReturn
    \/ BuildNote
    \/ BuilderReturn

SpecSingle == InitSingle /\ [][NextSingle]_vars

\* program_to_abc alone
NextBars == Serialize

SpecBars == InitBars /\ [][NextBars]_vars

\* gilligan stage / gilligan workflow
NextCli ==
    \/ StageNoInput \/ StageLoadJson \/ StageValidate
    \/ WorkflowNoInput \/ WorkflowNoTrack \/ WorkflowValidate
    \/ Preprocess
    \/ TokWhitespace \/ TokChord \/ TokNote \/ TokUnknown
    \/ TokReturn
    \/ BuildChord \/ BuildNote \/ BuildValueError \/ BuildZeroDivision
    \/ BuilderReturn
    \/ ReturnParseErrors \/ Validate \/ ReturnInvalid \/ ReturnValid
    \/ StageValidationFailed \/ StageRequest
    \/ WorkflowValidationFailed \/ WorkflowWrite \/ WorkflowNotify

SpecCli == InitCli /\ [][NextCli]_vars

(***************************************************************************)
(* Properties.                                                             *)
(***************************************************************************)
Returned == result # None
BuilderLeft == pc \notin {"json", "serialize", "call", "tokenize", "build"}
TextRun == doc = None

\* C1: every result validate_abc returns has valid true exactly when errors
\* is empty and the normalized text present exactly when valid; when parsing
\* succeeded and structural validation found errors, the program is present
\* and the normalized text absent.
C1_ResultShape ==
    (TextRun /\ Returned) =>
        /\ result[1].valid <=> (result[1].errors = <<>>)
        /\ (result[1].abc_output # None) <=> result[1].valid
        /\ (parse_errors = <<>> /\ errors # <<>>) =>
               /\ result[1].program # None
               /\ result[1].program = program
               /\ result[1].abc_output = None

\* a text that parsed and then failed structural validation has been answered
C1_Witness ==
    /\ TextRun /\ Returned
    /\ parse_errors = <<>> /\ errors # <<>>
    /\ result[1].program # None

\* the number of tokens whose parse does not yield a pitch/duration
RECURSIVE FailCount(_)
FailCount(toks) ==
    IF toks = <<>> THEN 0
    ELSE (IF TokenResult(Head(toks)).kind = "ok" THEN 0 ELSE 1) + FailCount(Tail(toks))

\* C2: when k tokens fail to parse, the builder still processes every later
\* token and reports k errors, and validate_abc answers valid=false with
\* exactly those errors, no warnings, no program, no normalized text and
\* without running the validation.
C2_ParseErrorsGate ==
    (TextRun /\ BuilderLeft) =>
        /\ t = Len(tokens)
        /\ Len(parse_errors) = FailCount(tokens)
        /\ (FailCount(tokens) > 0 /\ pc = "done") =>
               /\ result = <<ValidationResult(FALSE, None, parse_errors, <<>>, None)>>
               /\ errors = <<>> /\ warnings = <<>>

\* the token text the tokenizer put after the accidental markers
AfterAccidentals(token) == LStrip(token, AccidentalChars)

\* a note token whose base letter is no pitch letter
BadBaseLetter(token) ==
    /\ ~IsChordToken(token)
    /\ token[1] \notin RestLetters
    /\ (AfterAccidentals(token) = <<>> \/ AfterAccidentals(token)[1] \notin PitchLetters)

\* C3: parsing a token either yields a pitch/duration or adds an error; no
\* exception leaves validate_abc; a token whose base letter is no pitch
\* letter yields an error whose message holds the token text.
C3_ParsingTotal ==
    TextRun =>
        /\ pc # "raised"
        /\ \A k \in 1..t :
               /\ TokenResult(tokens[k]).kind \in {"ok", "ValueError"}
               /\ BadBaseLetter(tokens[k]) =>
                      /\ TokenResult(tokens[k]).kind = "ValueError"
                      /\ IsSubstring(tokens[k], TokenResult(tokens[k]).msg.text)

\* the beats the builder adds for the tokens of toks that parse
RECURSIVE DurSum(_)
DurSum(toks) ==
    IF toks = <<>> THEN RInt(0)
    ELSE LET r == TokenResult(Head(toks))
             rest == DurSum(Tail(toks))
         IN  IF r.kind = "ok" THEN RAdd(r.dur, rest) ELSE rest

\* the number of NoteEvents a token emits: none for a rest or a token that
\* fails, one for a note, one per accepted pitch group for a chord
EventCount(token) ==
    IF TokenResult(token).kind # "ok" THEN 0
    ELSE IF IsChordToken(token) THEN Len(parse_abc_chord(token))
    ELSE IF token[1] \in RestLetters THEN 0
    ELSE 1

\* the start beats the consumed tokens 1..n call for, in order
RECURSIVE ExpectedStarts(_, _)
ExpectedStarts(toks, n) ==
    IF n = 0 THEN <<>>
    ELSE ExpectedStarts(toks, n - 1)
             \o [k \in 1..EventCount(toks[n]) |-> DurSum(SubSeq(toks, 1, n - 1))]

\* C4: the cursor starts at 0 and is the sum of the durations of the tokens
\* consumed so far that parsed; a rest emits no NoteEvent and a note exactly
\* one; every NoteEvent starts at the sum of the durations of the earlier
\* tokens that parsed; so the notes are in non-decreasing startBeat order.
C4_BeatCursor ==
    TextRun =>
        /\ current_beat = DurSum(SubSeq(tokens, 1, t))
        /\ [k \in 1..Len(notes) |-> notes[k].startBeat] = ExpectedStarts(tokens, t)
        /\ \A k \in 1..(Len(notes) - 1) : RLe(notes[k].startBeat, notes[k + 1].startBeat)
        /\ t = 0 => current_beat = RInt(0)

\* a rest of 99 beats, then a note that starts at beat 99
C4_Witness ==
    /\ TextRun /\ pc = "build" /\ t = 2
    /\ tokens[1][1] \in RestLetters
    /\ Len(notes) = 1
    /\ notes[1].startBeat = RInt(99)
    /\ current_beat = RInt(100)

\* the duration suffix written after the closing bracket of a chord token
ChordSuffixText(token) == Drop(token, FindClose(token, 0) + 1)

\* the value of a suffix n, n/d or /d
SuffixValue(suffix) ==
    IF suffix = <<>> THEN RInt(1) ELSE ParseNoteDuration(suffix, suffix).dur

WellFormedSuffix(suffix) ==
    suffix = <<>> \/ ParseNoteDuration(suffix, suffix).kind = "ok"

\* C5: a chord token emits one NoteEvent per pitch group that parses, all at
\* the cursor before the chord and all with the duration written after the
\* closing bracket (1.0 without a suffix; digits inside the brackets do not
\* count), and then advances the cursor once by that duration.
C5_ChordDuration ==
    [][(pc = "build" /\ t < Len(tokens) /\ t' = t + 1 /\ IsChordToken(tokens[t + 1])
        /\ WellFormedSuffix(ChordSuffixText(tokens[t + 1]))) =>
           /\ notes' = notes \o ChordEvents(parse_abc_chord(tokens[t + 1]), current_beat,
                                            SuffixValue(ChordSuffixText(tokens[t + 1])))
           /\ current_beat' = RAdd(current_beat,
                                   SuffixValue(ChordSuffixText(tokens[t + 1])))]_vars

LegalLengths ==
    {Rat(1, 8), Rat(1, 4), Rat(1, 2), RInt(1), RInt(2), RInt(4), RInt(8), RInt(16)}

Thousandth == Rat(1, 1000)

\* C6: lengthBars of the built program is the smallest legal length that is
\* >= beats/beatsPerBar - 0.001, and 16 when beats/beatsPerBar exceeds 16; it
\* is always a legal length; 3 beats at 4 beats per bar give 1.
C6_Quantization ==
    (pc = "parsed" /\ beats_per_bar > 0) =>
        LET bars == RDiv(current_beat, RInt(beats_per_bar))
            length_bars == program[1].lengthBars
            fits == {v \in LegalLengths : RLe(RSub(bars, Thousandth), v)}
        IN  /\ length_bars \in LegalLengths
            /\ fits # {} => (length_bars \in fits /\ \A v \in fits : RLe(length_bars, v))
            /\ RLt(RInt(16), bars) => length_bars = RInt(16)
            /\ (current_beat = RInt(3) /\ beats_per_bar = 4) => length_bars = RInt(1)

\* elapsed bars just above 1, within the tolerance, quantized to 1
C6_Witness ==
    /\ pc = "parsed"
    /\ RLt(RInt(beats_per_bar), current_beat)
    /\ program[1].lengthBars = RInt(1)

\* validate_program has run on the program
Validated == pc \in {"validated", "done"} /\ program # None /\ parse_errors = <<>>

EmptyWarning == <<ProgramError("Empty program")>>

IsLegalLength(length_bars) ==
    /\ length_bars # None
    /\ \E v \in LegalLengths : RLt(RAbs(RSub(length_bars, v)), Thousandth)

\* C7 as stated: whenever the note list is empty, validation returns no
\* errors and the single warning about the empty program.
C7_EmptyIsValid ==
    (Validated /\ program[1].notes = <<>>) =>
        /\ errors = <<>>
        /\ warnings = EmptyWarning

\* C7, amended: whenever the note list is empty, validation returns the
\* single warning about the empty program and runs no per-note or scale
\* check; it returns no errors when lengthBars is a legal length, as it is
\* for every program built from text, and exactly one error, about
\* lengthBars, when lengthBars is missing or no legal length.
C7_EmptyWarns ==
    (Validated /\ program[1].notes = <<>>) =>
        /\ warnings = EmptyWarning
        /\ IsLegalLength(program[1].lengthBars) => errors = <<>>
        /\ ~IsLegalLength(program[1].lengthBars) =>
               (Len(errors) = 1 /\ errors[1].idx = -1)
        /\ TextRun => (errors = <<>> /\ (Returned => result[1].valid))

\* validate("") has answered: valid, no notes, the warning
C7_Witness ==
    /\ TextRun /\ Returned /\ abc_str = <<>>
    /\ result[1].valid
    /\ result[1].program[1].notes = <<>>
    /\ result[1].warnings = EmptyWarning

\* keys and scales the errors are compared across
ProbeKeyScales ==
    { <<None, None>>, <<None, <<"major">>>>, <<<<0>>, None>>, <<<<0>>, <<"major">>>>,
      <<<<1>>, <<"bogus">>>>, <<<<11>>, <<"blues">>>>, <<<<0>>, <<"">>>> }

\* the notes (0-based) whose pitch is a valid integer absent from the scale set
OffScale(ns, k, sc) ==
    {n \in 0..(Len(ns) - 1) :
         /\ ns[n + 1].pitch # None /\ IsValidPitch(ns[n + 1].pitch)
         /\ ns[n + 1].pitch[1] \notin get_scale_notes(k[1], sc[1])}

KnownScale == key # None /\ scale # None /\ scale[1] \in ScaleNames

\* C8: the errors and the valid flag are the same for every key and scale; a
\* note whose pitch is a valid integer absent from the scale set adds exactly
\* one warning; an unknown scale name adds no warning and no error.
C8_ScaleAdvisory ==
    (Validated /\ Returned) =>
        /\ \A ks \in ProbeKeyScales :
               validate_program(program[1], ks[1], ks[2], beats_per_bar).errors = errors
        /\ result[1].errors = errors
        /\ result[1].valid <=> errors = <<>>
        /\ (program[1].notes # <<>> /\ KnownScale) =>
               /\ \A n \in OffScale(program[1].notes, key, scale) :
                      Cardinality({w \in 1..Len(warnings) : warnings[w].idx = n}) = 1
               /\ Len(warnings) = Cardinality(OffScale(program[1].notes, key, scale))
        /\ (program[1].notes # <<>> /\ ~KnownScale) => warnings = <<>>

\* a program with an off-scale note has been answered: warned, and valid
C8_Witness ==
    /\ Validated /\ Returned /\ KnownScale
    /\ OffScale(program[1].notes, key, scale) # {}
    /\ result[1].valid
    /\ result[1].warnings # <<>>

\* the pitches of 0..127 whose pitch class relative to k is in the scale
PitchClassSet(k, name) == {p \in 0..127 : ((p - k + 12) % 12) \in SCALES(name)}

\* C9: get_scale_notes(k, scale) is the set of pitches p of 0..127 with
\* (p - k) mod 12 in the scale's intervals, in every octave, also below k in
\* the lowest octave; so a note is warned as outside the scale exactly when
\* its pitch class is not in the scale.
C9_ScaleSet ==
    (Validated /\ Returned /\ KnownScale /\ key[1] \in 0..11) =>
        \A n \in 1..Len(program[1].notes) :
            (program[1].notes[n].pitch # None
             /\ IsValidPitch(program[1].notes[n].pitch)) =>
                LET p == program[1].notes[n].pitch[1]
                    warned == \E w \in 1..Len(warnings) : warnings[w].idx = n - 1
                IN  /\ p \in get_scale_notes(key[1], scale[1])
                        <=> p \in PitchClassSet(key[1], scale[1])
                    /\ warned <=> p \notin PitchClassSet(key[1], scale[1])

Triples(ns) ==
    [k \in 1..Len(ns) |-> <<ns[k].pitch, ns[k].startBeat, ns[k].lengthBeats>>]

Occurrences(sq, x) == Cardinality({k \in 1..Len(sq) : sq[k] = x})

SameMultiset(a, b) ==
    \A x \in {a[k] : k \in 1..Len(a)} \cup {b[k] : k \in 1..Len(b)} :
        Occurrences(a, x) = Occurrences(b, x)

\* durations that read back as written: whole beats, 1/2 and 1/4
PlainDurations(ns) ==
    \A k \in 1..Len(ns) :
        /\ RLt(RInt(0), ns[k].lengthBeats)
        /\ (RIsInt(ns[k].lengthBeats) \/ ns[k].lengthBeats \in {Rat(1, 2), Rat(1, 4)})

\* C10: abc_to_program(program_to_abc(program)) has the same multiset of
\* (pitch, startBeat, lengthBeats) triples as the program, also with gaps
\* between notes, a first note after beat 0, and chords.
C10_RoundTrip ==
    (doc # None /\ pc = "parsed" /\ PlainDurations(doc[1].notes)) =>
        SameMultiset(Triples(program[1].notes), Triples(doc[1].notes))

(***************************************************************************)
(* C11: idempotence of validity.  When validate_abc(text) is valid, the    *)
(* validation of its normalized text is valid as well.                     *)
(***************************************************************************)
SecondCall == doc # None /\ abc_str # <<>>

\* C11: the second call, on the normalized text of a valid first call, returns
\* a valid result.
C11_Idempotence ==
    (SecondCall /\ Returned) => result[1].valid

(***************************************************************************)
(* C12: the validator enforces the program length.  In a program that      *)
(* validate_program reports no error for, every note ends within           *)
(* lengthBars * beatsPerBar: startBeat + lengthBeats <= that bound.         *)
(***************************************************************************)
ProgramEnd(prog, bpb) == RMul(prog.lengthBars, RInt(bpb))

\* C12: in a program validated without errors every note ends within the
\* program: startBeat + lengthBeats <= lengthBars * beatsPerBar.
C12_LengthBound ==
    (doc # None /\ Validated /\ Returned /\ errors = <<>>) =>
        \A k \in 1..Len(program[1].notes) :
            LET note == program[1].notes[k]
            IN  RLe(RAdd(note.startBeat, note.lengthBeats),
                    ProgramEnd(program[1], beats_per_bar))

(***************************************************************************)
(* The parts of a note or rest token, read off its text: accidental,       *)
(* letter, octave markers in any order, and the suffix after them.         *)
(***************************************************************************)
AccidentalLen(token) == PrefixRun(token, AccidentalChars)
AccidentalDelta(token) ==
    LET a == SubSeq(token, 1, AccidentalLen(token))
    IN  CASE a = <<"^">> -> 1 [] a = <<"^", "^">> -> 2
          [] a = <<"_">> -> -1 [] a = <<"_", "_">> -> -2
          [] OTHER -> 0
TokenLetter(token) == token[AccidentalLen(token) + 1]
TokenMarkers(token) ==
    LET tail == Drop(token, AccidentalLen(token) + 1)
    IN  SubSeq(tail, 1, PrefixRun(tail, OctaveChars))
TokenSuffix(token) ==
    LET tail == Drop(token, AccidentalLen(token) + 1)
    IN  Drop(tail, PrefixRun(tail, OctaveChars))
CountOf(sq, c) == Cardinality({k \in 1..Len(sq) : sq[k] = c})

\* the pitch by the counts of the markers
CountedPitch(token) ==
    ABC_BASE_NOTES(TokenLetter(token)) + AccidentalDelta(token)
        + 12 * CountOf(TokenMarkers(token), "'") - 12 * CountOf(TokenMarkers(token), ",")

\* a suffix of the form n, n/d or /d
IsDurationForm(suffix) ==
    \/ suffix # <<>> /\ AllDigits(suffix)
    \/ /\ CountOf(suffix, "/") = 1
       /\ LET parts == Split(suffix, "/")
          IN  /\ AllDigits(parts[1])
              /\ parts[2] # <<>> /\ AllDigits(parts[2])

\* the value of a suffix of that form whose denominator is not zero
DurationFormValue(suffix) ==
    IF AllDigits(suffix) THEN RInt(StrToInt(suffix))
    ELSE LET parts == Split(suffix, "/")
         IN  Rat(IF parts[1] = <<>> THEN 1 ELSE StrToInt(parts[1]), StrToInt(parts[2]))

ZeroDenominator(suffix) ==
    Has(suffix, "/") /\ LET parts == Split(suffix, "/")
                        IN  parts[2] # <<>> /\ AllDigits(parts[2]) /\ StrToInt(parts[2]) = 0

\* the text is one token, and the builder is done with it
OneTokenDone == doc = None /\ tokens = <<abc_str>> /\ pc \in {"parsed", "raised"}
IsNoteText(token) == TokenLetter(token) \in PitchLetters
IsRestText(token) == token[1] \in RestLetters

(***************************************************************************)
(* C13: pitch computation of parse_abc_note.  For a note token the pitch   *)
(* is the base value of the letter + the accidental delta + 12 per ' - 12  *)
(* per , whatever the order of the markers; the token is accepted exactly  *)
(* when that pitch is in 0..127 and otherwise fails with an error that     *)
(* carries the token text.  (Tokens without suffix or with a suffix n, n/d *)
(* or /d with a non-zero denominator.)                                     *)
(***************************************************************************)
\* C13: a note token is accepted with the counted pitch exactly when that
\* pitch is in 0..127, and otherwise fails with an error carrying the token.
C13_PitchComputation ==
    (OneTokenDone /\ IsNoteText(abc_str)
     /\ (TokenSuffix(abc_str) = <<>>
         \/ (IsDurationForm(TokenSuffix(abc_str)) /\ ~ZeroDenominator(TokenSuffix(abc_str))))) =>
        IF CountedPitch(abc_str) \in 0..127
        THEN /\ parse_errors = <<>>
             /\ Len(notes) = 1
             /\ notes[1].pitch = RInt(CountedPitch(abc_str))
        ELSE /\ notes = <<>>
             /\ Len(parse_errors) = 1
             /\ parse_errors[1].text = abc_str

(***************************************************************************)
(* C14: duration suffix handling.  A suffix of a note (after the letter    *)
(* and the octave markers) or of a rest (after the letter) that is present *)
(* but not of the form n, n/d or /d makes the parse fail with an error, it *)
(* is never accepted; an accepted token without suffix lasts 1.0 beat and  *)
(* one with a suffix of that form lasts its value (/d is 1/d).             *)
(***************************************************************************)
RestSuffix(token) == Drop(token, 1)
SuffixOf(token) == IF IsRestText(token) THEN RestSuffix(token) ELSE TokenSuffix(token)
Accepted == pc = "parsed" /\ parse_errors = <<>>
Failed == pc = "parsed" /\ Len(parse_errors) = 1 /\ notes = <<>>

\* C14: a malformed duration suffix makes the parse fail; an absent suffix
\* gives 1.0 and a suffix n, n/d or /d gives its value.
C14_DurationSuffix ==
    (OneTokenDone /\ (IsRestText(abc_str) \/ IsNoteText(abc_str))) =>
        LET suffix == SuffixOf(abc_str)
        IN  /\ (suffix # <<>> /\ ~IsDurationForm(suffix)) => Failed
            /\ (Accepted /\ suffix = <<>>) => current_beat = RInt(1)
            /\ (Accepted /\ IsDurationForm(suffix) /\ ~ZeroDenominator(suffix)) =>
                   current_beat = DurationFormValue(suffix)

(***************************************************************************)
(* C15: exhaustive structural validation.  For a program with notes, every *)
(* field of every note that is missing or out of range has exactly one     *)
(* error tagged with the note's index, whatever else was found; the errors *)
(* are in note order, after the one error of a missing or illegal          *)
(* lengthBars, and there are no other errors.                              *)
(***************************************************************************)
FieldNames == {"pitch", "startBeat", "lengthBeats", "velocity"}

FieldTags(field) ==
    CASE field = "pitch" -> {"Missing 'pitch'", "Invalid pitch"}
      [] field = "startBeat" ->
             {"Missing 'startBeat'", "Negative startBeat", "Starts past program end"}
      [] field = "lengthBeats" -> {"Missing 'lengthBeats'", "Non-positive duration"}
      [] field = "velocity" -> {"Missing 'velocity'", "Velocity must be 0.0-1.0"}

\* lengthBars * beatsPerBar, 0 without lengthBars
StartBound(prog, bpb) ==
    IF prog.lengthBars = None THEN RInt(0) ELSE RMul(prog.lengthBars, RInt(bpb))

FieldBad(field, note, bound) ==
    CASE field = "pitch" ->
             \/ note.pitch = None
             \/ ~RIsInt(note.pitch)
             \/ note.pitch[1] \notin 0..127
      [] field = "startBeat" ->
             \/ note.startBeat = None
             \/ RLt(note.startBeat, RInt(0))
             \/ RLt(RInt(0), bound) /\ RLe(bound, note.startBeat)
      [] field = "lengthBeats" ->
             note.lengthBeats = None \/ RLe(note.lengthBeats, RInt(0))
      [] field = "velocity" ->
             \/ note.velocity = None
             \/ RLt(note.velocity, RInt(0))
             \/ RLt(RInt(1), note.velocity)

ErrorsOf(errs, idx, tags) == {k \in 1..Len(errs) : errs[k].idx = idx /\ errs[k].tag \in tags}

BadFields(prog, bpb) ==
    { <<k, f>> \in (1..Len(prog.notes)) \X FieldNames :
          FieldBad(f, prog.notes[k], StartBound(prog, bpb)) }

BadLengthBars(prog) == prog.lengthBars = None \/ ~IsLegalLength(prog.lengthBars)

\* C15: one error per bad field of every note, in note order, after the one
\* error of a bad lengthBars, and no other error.
C15_Exhaustive ==
    (doc # None /\ Validated /\ Returned /\ program[1].notes # <<>>) =>
        LET prog == program[1]
            bound == StartBound(prog, beats_per_bar)
        IN  /\ \A k \in 1..Len(prog.notes) : \A f \in FieldNames :
                   Cardinality(ErrorsOf(errors, k - 1, FieldTags(f)))
                       = IF FieldBad(f, prog.notes[k], bound) THEN 1 ELSE 0
            /\ Cardinality({k \in 1..Len(errors) : errors[k].idx = -1})
                   = IF BadLengthBars(prog) THEN 1 ELSE 0
            /\ Len(errors) = Cardinality(BadFields(prog, beats_per_bar))
                                 + IF BadLengthBars(prog) THEN 1 ELSE 0
            /\ \A a, b \in 1..Len(errors) : a < b => errors[a].idx <= errors[b].idx
            /\ result[1].errors = errors

\* a document without lengthBars whose two notes have all four fields wrong
C15_Witness ==
    /\ doc # None /\ Validated /\ Returned
    /\ Len(program[1].notes) = 2
    /\ BadLengthBars(program[1])
    /\ Cardinality(BadFields(program[1], beats_per_bar)) = 8
    /\ Len(errors) = 9

(***************************************************************************)
(* C16: tokenizer ordering and leniency.  The tokens are non-empty         *)
(* fragments of the content, one after the other in the order of the       *)
(* content, and every character scanned so far that is in no token is      *)
(* whitespace, an unrecognized symbol or a '[' without a later ']'; the    *)
(* characters after such a '[' are tokenized.                              *)
(***************************************************************************)
StrayBracketAt(text, p) == text[p] = "[" /\ \A q \in (p + 1)..Len(text) : text[q] # "]"

Dropped(text, p) ==
    \/ text[p] \in Whitespace
    \/ StrayBracketAt(text, p)
    \/ text[p] \notin NoteStartChars \cup {"["}

\* toks are the fragments of text[p..last], in order, around dropped characters
RECURSIVE Covers(_, _, _, _)
Covers(text, p, last, toks) ==
    IF p > last THEN toks = <<>>
    ELSE IF Dropped(text, p) THEN Covers(text, p + 1, last, toks)
    ELSE /\ toks # <<>>
         /\ Head(toks) # <<>>
         /\ p + Len(Head(toks)) - 1 <= last
         /\ SubSeq(text, p, p + Len(Head(toks)) - 1) = Head(toks)
         /\ Covers(text, p + Len(Head(toks)), last, Tail(toks))

Scanning == doc = None /\ pc \in {"tokenize", "build"}

\* C16: the tokens are the fragments of the scanned content in order, and only
\* whitespace, unrecognized symbols and stray '[' are in no token.
C16_TokenOrder ==
    Scanning => /\ content = Content(abc_str)
                /\ Covers(content, 1, i, tokens)
                /\ pc = "build" => i = Len(content)

\* a stray bracket was dropped and the note after it became a token
C16_Witness ==
    /\ Scanning /\ pc = "build"
    /\ \E p \in 1..Len(content) : StrayBracketAt(content, p) /\ p < Len(content)
    /\ tokens # <<>>

(***************************************************************************)
(* C17: the scan terminates.  Every iteration of the scanning loop moves   *)
(* the index forward, the index never passes the end of the content, there *)
(* are never more tokens than characters scanned, the content is no longer *)
(* than the input, and the loop is left.                                   *)
(***************************************************************************)
LoopStep == pc = "tokenize" /\ i < Len(content)

\* C17: every iteration of the scan moves the index forward and adds at most
\* one token, within the content's length, and the scan is left.
C17_ScanTerminates ==
    /\ [][LoopStep => (i' > i /\ Len(tokens') <= Len(tokens) + 1)]_vars
    /\ [](/\ i <= Len(content)
          /\ Len(tokens) <= i
          /\ pc # "call" => Len(content) <= Len(abc_str))
    /\ (pc = "tokenize") ~> (pc = "build" /\ i = Len(content))

\* a scan of a text of several characters is over and has emitted tokens
C17_Witness ==
    /\ pc = "build" /\ doc = None
    /\ Len(content) >= 3 /\ i = Len(content)
    /\ Len(tokens) >= 2

(***************************************************************************)
(* C18: single-note serialization is the inverse of the note parser.  For  *)
(* every pitch in 0..127 and every positive duration that is a multiple of *)
(* 1/4 beat, the text midi_to_abc writes parses back to that pitch and     *)
(* duration; its letter is lowercase with one ' per octave above 60..71    *)
(* for pitches from 60, uppercase with one , per octave below 48..59 for   *)
(* pitches under 60.                                                       *)
(***************************************************************************)
SingleRun == doc # None /\ Len(doc[1].notes) = 1 /\ abc_str # <<>>
LowerLetters == {"c", "d", "e", "f", "g", "a", "b"}
OctaveOf(pitch) == pitch \div 12

BarLine == <<"|">>
Serialized == doc # None /\ pc = "call" /\ doc[1].notes # <<>>
IndexSeq(n) == [k \in 1..n |-> k]
BarOf(start, bpb) == RFloorDiv(start, RInt(bpb))

\* C19: the groups are written in start order with a bar separator between
\* two groups whenever the later starts in a later bar, and one at the end.
C19_BarSeparators ==
    Serialized =>
        LET parts == Split(abc_str, " ")
            at == SelectSeq(IndexSeq(Len(parts)), LAMBDA k : parts[k] # BarLine)
            ns == doc[1].notes
            times == SortedTimes({StartOf(ns[k]) : k \in 1..Len(ns)})
        IN  /\ parts[Len(parts)] = BarLine
            /\ Len(at) = Len(times)
            /\ \A k \in 1..Len(times) : parts[at[k]] = GroupText(GroupAt(ns, times[k]))
            /\ \A k \in 1..(Len(times) - 1) :
                   BarOf(times[k + 1], beats_per_bar) > BarOf(times[k], beats_per_bar)
                       => at[k + 1] = at[k] + 2

(***************************************************************************)
(* C20: a program built from text passes structural validation.  When      *)
(* every token of the text parses and has a positive duration, validate_abc *)
(* returns a valid result, with no note reported as starting past the      *)
(* program end.                                                            *)
(***************************************************************************)
AllTokensPositive ==
    \A k \in 1..Len(tokens) :
        /\ TokenResult(tokens[k]).kind = "ok"
        /\ RLt(RInt(0), TokenResult(tokens[k]).dur)

\* C20: a text whose tokens all parse with a positive duration validates as
\* valid, with no note reported as starting past the program end.
C20_BuiltProgramValid ==
    (TextRun /\ Returned /\ AllTokensPositive) =>
        /\ result[1].valid
        /\ \A k \in 1..Len(result[1].errors) :
               result[1].errors[k].tag # "Starts past program end"

(***************************************************************************)
(* C21: validation precedes staging in gilligan stage --abc and in         *)
(* gilligan workflow.                                                      *)
(***************************************************************************)
\* the command runs the validator on a text (stage --json alone does not)
OnAbcPath ==
    \/ cli.command = "workflow"
    \/ cli.command = "stage" /\ abc_str # <<>>

IsStageRequest(r) == r.command = "stage"

StageRequestsOf(c) == {k \in DOMAIN c.requests : IsStageRequest(c.requests[k])}

\* the validator has answered valid = true for the text
ValidatedValid == pc \in {"done", "written", "exit"} /\ Returned /\ result[1].valid

\* every stage request and the staging file carry the program of a valid answer
StagedOnlyAfterValid ==
    OnAbcPath =>
        /\ \A k \in StageRequestsOf(cli) :
               ValidatedValid /\ cli.requests[k].program = result[1].program
        /\ cli.staging_file # None =>
               ValidatedValid /\ cli.staging_file = result[1].program

\* a command that ended without a valid answer returned 1 and staged nothing
FailedReturnsOne ==
    (pc = "exit" /\ OnAbcPath /\ ~ValidatedValid) =>
        /\ cli.exit_code = 1
        /\ StageRequestsOf(cli) = {}
        /\ cli.staging_file = None

\* the workflow wrote the file and the notification was answered with an error
NotificationFailed ==
    /\ pc = "exit" /\ cli.command = "workflow"
    /\ cli.staging_file # None
    /\ StageRequestsOf(cli) # {}
    /\ \A k \in StageRequestsOf(cli) : ~cli.requests[k].ok

\* a step that sends a stage request or writes the staging file
StagingStep ==
    \/ StageRequestsOf(cli') # StageRequestsOf(cli)
    \/ cli'.staging_file # cli.staging_file

\* the step a command takes when the validator did not answer valid = true
FailedValidationStep ==
    /\ OnAbcPath /\ ValidatorReturned /\ ~validation.valid
    /\ cli' # cli

ValidationPrecedesStagingStep ==
    /\ (OnAbcPath /\ StagingStep) => (pc \in {"done", "written"} /\ ValidatedValid)
    /\ FailedValidationStep =>
           /\ pc' = "exit" /\ cli'.exit_code = 1
           /\ cli'.requests = cli.requests
           /\ cli'.staging_file = None

\* C21: in stage --abc and in workflow a stage request is sent, and the staging
\* file written, only after the validator answered valid = true for the text;
\* a failed validation returns 1 with no stage request and no staging file; a
\* workflow whose notification fails after the file was written returns 0
C21_ValidationPrecedesStaging ==
    /\ [](StagedOnlyAfterValid /\ FailedReturnsOne)
    /\ [](NotificationFailed => cli.exit_code = 0)
    /\ [][ValidationPrecedesStagingStep]_vars

\* the workflow has written the file, the notification failed, and it returned
C21_Witness ==
    /\ NotificationFailed
    /\ ValidatedValid
    /\ cli.staging_file = result[1].program
    /\ Len(result[1].program[1].notes) > 0
    /\ cli.exit_code = 0

\* a stage --abc command has returned after a validator that raised
C21_WitnessFailed ==
    /\ pc = "exit" /\ cli.command = "stage" /\ abc_str # <<>>
    /\ ~Returned /\ content # <<>>
    /\ cli.exit_code = 1


====
